---- MODULE Spec2Model ----
(***************************************************************************)
(* Model of allroads.py, the roadmap builder: the roadmap store            *)
(* (RoadmapApp.quarters, the Quarter and Feature objects), the quarter     *)
(* frames that issue the feature operations, the feature editor dialog and *)
(* the JSON load/save.                                                     *)
(*                                                                         *)
(* Objects live in a heap: qobj maps a Quarter object to its fields, feat  *)
(* maps a Feature object to its fields, and lists hold object references.  *)
(* Python compares dataclass instances by their fields (list.index,        *)
(* list.remove and "in" use ==), which the model keeps apart from object   *)
(* identity.  A text is a sequence of characters (one-character strings,   *)
(* or a whole word taken as one non-blank character).                      *)
(***************************************************************************)
EXTENDS Integers, Sequences, FiniteSets, TLC

VARIABLES quarters, qobj, feat, frames, quarter_frames, current_file, disk,
          saved_view, last_error, declines

vars == <<quarters, qobj, feat, frames, quarter_frames, current_file, disk,
          saved_view, last_error, declines>>

(* ----------------------------- bounds ---------------------------------- *)

\* datetime.datetime.now(): the year and the month of the run
CurrentYear == 2024
CurrentMonth == 11
\* add_quarter is explored while the quarters list is shorter than this
MaxQuarters == 5
\* the feature widgets are explored while the feature lists hold at most this
\* many entries, add_feature while they hold fewer
MaxFeatures == 3
\* the Edit button and the checkbutton are explored while the feature lists hold
\* at most this many entries
MaxEdited == 1
\* how often the user may answer no to the confirmation of a clear_all that
\* new_roadmap, open_roadmap or load_template calls (each such answer can leave
\* frames behind for good)
MaxDeclines == 1
\* user actions in one session of the feature editor dialog
MaxEvents == 2

(* ----------------------------- helpers --------------------------------- *)

Range(f) == {f[i] : i \in DOMAIN f}

Restrict(f, S) == [x \in S |-> f[x]]

\* a reference no live object has
NewOid(used) ==
  CHOOSE n \in 1..(Cardinality(used) + 1) :
    n \notin used /\ \A m \in 1..(n - 1) : m \in used

\* list.pop(i) / del list[i], positions counted from 1
RemoveAt(list, i) == SubSeq(list, 1, i - 1) \o SubSeq(list, i + 1, Len(list))

\* list[i], list[j] = list[j], list[i]
Swap(list, i, j) ==
  [k \in 1..Len(list) |-> IF k = i THEN list[j] ELSE IF k = j THEN list[i] ELSE list[k]]

(* ------------------------------ texts ---------------------------------- *)

IsSpace(c) == c \in {" ", "\n"}

RECURSIVE LStrip(_)
LStrip(t) == IF t # <<>> /\ IsSpace(Head(t)) THEN LStrip(Tail(t)) ELSE t

RECURSIVE RStrip(_)
RStrip(t) ==
  IF t # <<>> /\ IsSpace(t[Len(t)]) THEN RStrip(SubSeq(t, 1, Len(t) - 1)) ELSE t

\* str.strip()
Strip(t) == RStrip(LStrip(t))

(* --------------------------- data classes ------------------------------ *)

DefaultColor == "#2196F3"

\* @dataclass Feature
Feature(id, title, description, completed, color) ==
  [id |-> id, title |-> title, description |-> description,
   completed |-> completed, color |-> color]

\* @dataclass Quarter; __post_init__ turns features=None into []
Quarter(year, quarter) == [year |-> year, quarter |-> quarter, features |-> <<>>]

\* Quarter.date_range: months[self.quarter] raises KeyError outside 1..4,
\* datetime.date raises ValueError outside the years 1..9999
DateRangeOk(year, quarter) == quarter \in 1..4 /\ year \in 1..9999

\* f"{quarter.year}_{quarter.quarter}"
FrameKey(year, quarter) == <<year, quarter>>

(* ------------------------------ store ---------------------------------- *)

\* the program's objects as one value; exc is set when the handler has raised
Store ==
  [quarters |-> quarters, qobj |-> qobj, feat |-> feat, frames |-> frames,
   quarter_frames |-> quarter_frames, exc |-> FALSE]

\* the fields of the features of quarter object q, in list order
FeatureValues(s, q) ==
  [i \in 1..Len(s.qobj[q].features) |-> s.feat[s.qobj[q].features[i]]]

\* dataclass __eq__ of Quarter: (year, quarter, features) compared by value
QuarterEq(s, a, b) ==
  /\ s.qobj[a].year = s.qobj[b].year
  /\ s.qobj[a].quarter = s.qobj[b].quarter
  /\ FeatureValues(s, a) = FeatureValues(s, b)

\* list.index on a list of Feature objects: the first entry equal (==) to f,
\* 0 for ValueError
FeatureIndex(s, list, f) ==
  IF \E i \in 1..Len(list) : s.feat[list[i]] = s.feat[f]
  THEN CHOOSE i \in 1..Len(list) :
         /\ s.feat[list[i]] = s.feat[f]
         /\ \A j \in 1..(i - 1) : s.feat[list[j]] # s.feat[f]
  ELSE 0

\* self.app.quarters.index(self.quarter): the first quarter equal (==) to q,
\* 0 for ValueError
QuarterIndex(s, q) ==
  IF \E i \in 1..Len(s.quarters) : QuarterEq(s, s.quarters[i], q)
  THEN CHOOSE i \in 1..Len(s.quarters) :
         /\ QuarterEq(s, s.quarters[i], q)
         /\ \A j \in 1..(i - 1) : ~QuarterEq(s, s.quarters[j], q)
  ELSE 0

\* reference counting: objects nothing refers to any more are freed
Collect(s) ==
  LET liveq == Range(s.quarters) \cup DOMAIN s.frames
      livef == UNION {Range(s.qobj[q].features) : q \in liveq}
               \cup UNION {{w.feature : w \in Range(s.frames[g])} : g \in DOMAIN s.frames}
  IN [s EXCEPT !.qobj = Restrict(s.qobj, liveq), !.feat = Restrict(s.feat, livef)]

\* QuarterFrame.refresh_features of the frame of quarter object g
refresh_features(s, g) ==
  IF g \in DOMAIN s.frames
  THEN Collect([s EXCEPT !.frames[g] =
         [i \in 1..Len(s.qobj[g].features) |->
            [feature |-> s.qobj[g].features[i],
             var |-> s.feat[s.qobj[g].features[i]].completed]]])
  ELSE s

\* RoadmapApp.add_quarter_to_ui with a Quarter(year, quarter, features)
add_quarter_to_ui(s, year, quarter, features) ==
  LET q == NewOid(DOMAIN s.qobj)
      s1 == [s EXCEPT
               !.quarters = Append(s.quarters, q),
               !.qobj = (q :> [year |-> year, quarter |-> quarter, features |-> features])
                        @@ s.qobj]
  IN IF DateRangeOk(year, quarter)
     THEN refresh_features(
            [s1 EXCEPT !.frames = (q :> <<>>) @@ s1.frames,
                       !.quarter_frames =
                          (FrameKey(year, quarter) :> q) @@
                          Restrict(s1.quarter_frames,
                                   DOMAIN s1.quarter_frames \ {FrameKey(year, quarter)})],
            q)
     ELSE [s1 EXCEPT !.exc = TRUE]

\* (month - 1) // 3 + 1
QuarterOfMonth(month) == ((month - 1) \div 3) + 1

RECURSIVE initialize_loop(_, _, _, _)
initialize_loop(s, current_year, current_quarter, i) ==
  IF i >= 4 \/ s.exc THEN s
  ELSE LET q == current_quarter + i
       IN initialize_loop(
            IF q > 4 THEN add_quarter_to_ui(s, current_year + 1, q - 4, <<>>)
                     ELSE add_quarter_to_ui(s, current_year, q, <<>>),
            current_year, current_quarter, i + 1)

\* RoadmapApp.initialize_quarters
initialize_quarters(s) ==
  initialize_loop(s, CurrentYear, QuarterOfMonth(CurrentMonth), 0)

\* NextQuarter without the carry into the next year
NextQuarterSameYear(s) ==
  IF s.quarters = <<>> THEN <<CurrentYear, 1>>
  ELSE LET last_quarter == s.qobj[s.quarters[Len(s.quarters)]]
       IN IF last_quarter.quarter = 4
          THEN <<last_quarter.year, 1>>
          ELSE <<last_quarter.year, last_quarter.quarter + 1>>

\* the (year, quarter) add_quarter gives the new quarter
NextQuarter(s) ==
  IF s.quarters = <<>> THEN <<CurrentYear, 1>>
  ELSE LET last_quarter == s.qobj[s.quarters[Len(s.quarters)]]
       IN IF last_quarter.quarter = 4
          THEN <<last_quarter.year + 1, 1>>
          ELSE <<last_quarter.year, last_quarter.quarter + 1>>

\* RoadmapApp.add_quarter
add_quarter(s) == add_quarter_to_ui(s, NextQuarter(s)[1], NextQuarter(s)[2], <<>>)

\* remove_quarter popping the first quarter of the list instead of the last
remove_quarter_first(s) ==
  IF s.quarters = <<>> THEN s
  ELSE LET first_quarter == s.qobj[s.quarters[1]]
           key == FrameKey(first_quarter.year, first_quarter.quarter)
           s1 == [s EXCEPT !.quarters = Tail(s.quarters)]
       IN IF key \in DOMAIN s.quarter_frames
          THEN Collect([s1 EXCEPT
                 !.frames = Restrict(s.frames, DOMAIN s.frames \ {s.quarter_frames[key]}),
                 !.quarter_frames =
                    Restrict(s.quarter_frames, DOMAIN s.quarter_frames \ {key})])
          ELSE Collect(s1)

\* RoadmapApp.remove_quarter
remove_quarter(s) ==
  IF s.quarters = <<>> THEN s
  ELSE LET last_quarter == s.qobj[s.quarters[Len(s.quarters)]]
           key == FrameKey(last_quarter.year, last_quarter.quarter)
           s1 == [s EXCEPT !.quarters = SubSeq(s.quarters, 1, Len(s.quarters) - 1)]
       IN IF key \in DOMAIN s.quarter_frames
          THEN Collect([s1 EXCEPT
                 !.frames = Restrict(s.frames, DOMAIN s.frames \ {s.quarter_frames[key]}),
                 !.quarter_frames =
                    Restrict(s.quarter_frames, DOMAIN s.quarter_frames \ {key})])
          ELSE Collect(s1)

\* RoadmapApp.clear_all; yes is the answer to its askyesno
clear_all(s, yes) ==
  IF yes
  THEN Collect([s EXCEPT
         !.frames = Restrict(s.frames, DOMAIN s.frames \ Range(s.quarter_frames)),
         !.quarter_frames = << >>,
         !.quarters = <<>>])
  ELSE s

(* ----------------------- the feature editor dialog --------------------- *)

\* FeatureDialog.__init__: the entries as first shown, result = None (<<>>)
FeatureDialog(title, description, color) ==
  [title_entry |-> title, desc_text |-> description, color_var |-> color,
   result |-> <<>>, open |-> TRUE]

\* FeatureDialog.ok_clicked; Text.get("1.0", tk.END) ends with a newline
ok_clicked(d) ==
  LET result == [title |-> Strip(d.title_entry),
                 description |-> Strip(d.desc_text \o <<"\n">>),
                 color |-> d.color_var]
  IN [d EXCEPT !.result = <<result>>, !.open = (result.title = <<>>)]

\* FeatureDialog.cancel_clicked
cancel_clicked(d) == [d EXCEPT !.open = FALSE]

\* FeatureDialog.choose_color; color is "" when the colour chooser was cancelled
choose_color(d, color) == IF color # "" THEN [d EXCEPT !.color_var = color] ELSE d

\* what the user does in the open dialog
TypedTitles == {<<" ">>, <<" ", "a">>}
TypedDescriptions == {<<"d">>}
ChosenColors == {"", "#FF0000"}

DialogEvents ==
  {[kind |-> "title", text |-> t] : t \in TypedTitles}
  \cup {[kind |-> "description", text |-> t] : t \in TypedDescriptions}
  \cup {[kind |-> "color", text |-> <<c>>] : c \in ChosenColors}
  \cup {[kind |-> "ok", text |-> <<>>], [kind |-> "cancel", text |-> <<>>]}

\* one user action on the open dialog
DialogStep(d, e) ==
  CASE e.kind = "title" -> [d EXCEPT !.title_entry = e.text]
    [] e.kind = "description" -> [d EXCEPT !.desc_text = e.text]
    [] e.kind = "color" -> choose_color(d, e.text[1])
    [] e.kind = "ok" -> ok_clicked(d)
    [] e.kind = "cancel" -> cancel_clicked(d)

\* dialog.wait_window(): every way a session of at most n user actions can end,
\* as the result the caller reads and the button that closed the dialog
RECURSIVE DialogOutcomes(_, _)
DialogOutcomes(d, n) ==
  IF n = 0 THEN {}
  ELSE UNION {IF DialogStep(d, e).open
              THEN DialogOutcomes(DialogStep(d, e), n - 1)
              ELSE {[result |-> DialogStep(d, e).result, closed_by |-> e.kind]}
              : e \in DialogEvents}

\* the sessions of the "Add Feature" dialog
AddOutcomes == DialogOutcomes(FeatureDialog(<<>>, <<>>, DefaultColor), MaxEvents)

\* the sessions of the "Edit Feature" dialog of a feature with fields v
EditOutcomes(v) ==
  DialogOutcomes(FeatureDialog(v.title, v.description, v.color), MaxEvents)

(* ------------------------- feature operations -------------------------- *)

\* QuarterFrame.add_feature of the frame of quarter object g
add_feature(s, g, result) ==
  IF result # <<>>
  THEN LET f == NewOid(DOMAIN s.feat)
           feature == Feature(<<"feature_", ToString(Len(s.qobj[g].features))>>,
                              result[1].title, result[1].description, FALSE,
                              result[1].color)
       IN refresh_features(
            [s EXCEPT !.feat = (f :> feature) @@ s.feat,
                      !.qobj[g].features = Append(s.qobj[g].features, f)], g)
  ELSE s

\* QuarterFrame.toggle_feature; var is the checkbutton's variable after the click
toggle_feature(s, g, f, var) ==
  refresh_features([s EXCEPT !.feat[f].completed = var], g)

\* QuarterFrame.edit_feature
edit_feature(s, g, f, result) ==
  IF result # <<>>
  THEN refresh_features(
         [s EXCEPT !.feat[f].title = result[1].title,
                   !.feat[f].description = result[1].description,
                   !.feat[f].color = result[1].color], g)
  ELSE s

\* list.remove(feature): the first entry equal (==) to f goes
ListRemove(s, list, f) == RemoveAt(list, FeatureIndex(s, list, f))

\* QuarterFrame.delete_feature; yes is the answer to its askyesno
delete_feature(s, g, f, yes) ==
  IF yes
  THEN refresh_features(
         IF FeatureIndex(s, s.qobj[g].features, f) # 0
         THEN [s EXCEPT !.qobj[g].features = ListRemove(s, s.qobj[g].features, f)]
         ELSE s, g)
  ELSE s

\* refresh of the frame registered under the key of quarter object q, if any
refresh_registered(s, q) ==
  LET key == FrameKey(s.qobj[q].year, s.qobj[q].quarter)
  IN IF key \in DOMAIN s.quarter_frames
     THEN refresh_features(s, s.quarter_frames[key])
     ELSE s

\* QuarterFrame.move_to_previous_quarter
move_to_previous_quarter(s, g, f) ==
  LET current_quarter_index == QuarterIndex(s, g)
  IN IF current_quarter_index = 0 THEN [s EXCEPT !.exc = TRUE]
     ELSE IF current_quarter_index > 1
     THEN LET previous_quarter == s.quarters[current_quarter_index - 1]
              s1 == IF s.qobj[g].features # <<>>
                    THEN [s EXCEPT !.qobj[g].features =
                            ListRemove(s, s.qobj[g].features, f)]
                    ELSE s
              s2 == [s1 EXCEPT !.qobj[previous_quarter].features =
                       Append(s1.qobj[previous_quarter].features, f)]
          IN refresh_registered(refresh_features(s2, g), previous_quarter)
     ELSE s

\* QuarterFrame.move_to_next_quarter
move_to_next_quarter(s, g, f) ==
  LET current_quarter_index == QuarterIndex(s, g)
  IN IF current_quarter_index = 0 THEN [s EXCEPT !.exc = TRUE]
     ELSE IF current_quarter_index < Len(s.quarters)
     THEN LET next_quarter == s.quarters[current_quarter_index + 1]
              s1 == IF s.qobj[g].features # <<>>
                    THEN [s EXCEPT !.qobj[g].features =
                            ListRemove(s, s.qobj[g].features, f)]
                    ELSE s
              s2 == [s1 EXCEPT !.qobj[next_quarter].features =
                       <<f>> \o s1.qobj[next_quarter].features]
          IN refresh_registered(refresh_features(s2, g), next_quarter)
     ELSE s

\* QuarterFrame.move_feature_up
move_feature_up(s, g, f) ==
  LET features == s.qobj[g].features
      current_index == FeatureIndex(s, features, f)
  IN IF features = <<>> THEN s
     ELSE IF current_index = 0 THEN [s EXCEPT !.exc = TRUE]
     ELSE IF current_index > 1
     THEN refresh_features(
            [s EXCEPT !.qobj[g].features =
               Swap(features, current_index, current_index - 1)], g)
     ELSE move_to_previous_quarter(s, g, f)

\* QuarterFrame.move_feature_down
move_feature_down(s, g, f) ==
  LET features == s.qobj[g].features
      current_index == FeatureIndex(s, features, f)
  IN IF features = <<>> THEN s
     ELSE IF current_index = 0 THEN [s EXCEPT !.exc = TRUE]
     ELSE IF current_index < Len(features)
     THEN refresh_features(
            [s EXCEPT !.qobj[g].features =
               Swap(features, current_index, current_index + 1)], g)
     ELSE move_to_next_quarter(s, g, f)

(* ------------------------ new, templates, files ------------------------ *)

\* RoadmapApp.new_roadmap up to its change of current_file; yes1 answers its own
\* askyesno, yes2 the one of the clear_all it calls
new_roadmap(s, yes1, yes2) ==
  IF s.quarters # <<>>
  THEN IF yes1 THEN initialize_quarters(clear_all(s, yes2)) ELSE s
  ELSE s

\* the templates of load_template
Templates ==
  [web |-> << <<"Planning & Design">>, <<"Backend Setup">>, <<"Frontend Development">>,
              <<"Authentication System">>, <<"Payment Integration">>, <<"Testing & QA">>,
              <<"Deployment">> >>,
   mobile |-> << <<"UI/UX Design">>, <<"Core Architecture">>, <<"User Authentication">>,
                 <<"Main Features">>, <<"Push Notifications">>,
                 <<"App Store Submission">>, <<"Marketing Launch">> >>,
   api |-> << <<"API Specification">>, <<"Database Design">>, <<"Authentication & Auth">>,
              <<"Core Endpoints">>, <<"Documentation">>, <<"Testing Suite">>,
              <<"Monitoring Setup">> >>]

Palette == <<"#4CAF50", "#2196F3", "#FF9800", "#9C27B0">>

features_per_quarter == 2

\* the Feature load_template makes of the j-th title of quarter i (both from 0)
TemplateFeature(template_type, i, j) ==
  LET feature_title == Templates[template_type][i * features_per_quarter + j + 1]
  IN Feature(<<"feature_", template_type, "_", ToString(i), "_", ToString(j)>>,
             feature_title, <<"Implementation of ">> \o feature_title, FALSE,
             Palette[(i % 4) + 1])

Min(a, b) == IF a < b THEN a ELSE b

\* the inner loop of load_template: the features of quarter i from the j-th on,
\* as the store with the new Feature objects and the list of their references
RECURSIVE template_features(_, _, _, _, _)
template_features(s, template_type, i, j, list) ==
  LET start_idx == i * features_per_quarter
      end_idx == Min(start_idx + features_per_quarter, Len(Templates[template_type]))
  IN IF start_idx + j >= end_idx THEN [store |-> s, list |-> list]
     ELSE LET f == NewOid(DOMAIN s.feat)
          IN template_features(
               [s EXCEPT !.feat = (f :> TemplateFeature(template_type, i, j)) @@ s.feat],
               template_type, i, j + 1, Append(list, f))

\* the outer loop of load_template
RECURSIVE template_quarters(_, _, _)
template_quarters(s, template_type, i) ==
  LET features == Templates[template_type]
      num_quarters == (Len(features) + features_per_quarter - 1) \div features_per_quarter
  IN IF i >= num_quarters \/ s.exc THEN s
     ELSE LET made == template_features(s, template_type, i, 0, <<>>)
          IN template_quarters(
               add_quarter_to_ui(made.store, CurrentYear, i + 1, made.list),
               template_type, i + 1)

\* RoadmapApp.load_template; yes1 answers its own askyesno, yes2 the one of the
\* clear_all it calls
load_template(s, template_type, yes1, yes2) ==
  IF template_type \in DOMAIN Templates
  THEN IF s.quarters # <<>> /\ ~yes1 THEN s
       ELSE template_quarters(clear_all(s, yes2), template_type, 0)
  ELSE s

\* the in-memory roadmap as values: per quarter its year, its number and the
\* fields of its features in order
View(s) ==
  [k \in 1..Len(s.quarters) |->
     [year |-> s.qobj[s.quarters[k]].year,
      quarter |-> s.qobj[s.quarters[k]].quarter,
      features |-> FeatureValues(s, s.quarters[k])]]

\* SaveData without the 'completed' key of a feature
SaveDataWithoutCompleted(s) ==
  [quarters |->
     [k \in 1..Len(s.quarters) |->
        [year |-> s.qobj[s.quarters[k]].year,
         quarter |-> s.qobj[s.quarters[k]].quarter,
         features |->
           [i \in 1..Len(s.qobj[s.quarters[k]].features) |->
              LET feature == s.feat[s.qobj[s.quarters[k]].features[i]]
              IN [id |-> feature.id, title |-> feature.title,
                  description |-> feature.description,
                  color |-> feature.color]]]],
   created |-> <<CurrentYear, CurrentMonth>>,
   version |-> "2.0"]

\* the dict save_to_file hands to json.dump; json.dump and json.load give the
\* dicts, lists, strings, integers and booleans back as they were written
SaveData(s) ==
  [quarters |->
     [k \in 1..Len(s.quarters) |->
        [year |-> s.qobj[s.quarters[k]].year,
         quarter |-> s.qobj[s.quarters[k]].quarter,
         features |->
           [i \in 1..Len(s.qobj[s.quarters[k]].features) |->
              LET feature == s.feat[s.qobj[s.quarters[k]].features[i]]
              IN [id |-> feature.id, title |-> feature.title,
                  description |-> feature.description,
                  completed |-> feature.completed, color |-> feature.color]]]],
   created |-> <<CurrentYear, CurrentMonth>>,
   version |-> "2.0"]

\* dict.get(key, default)
Get(d, key, default) == IF key \in DOMAIN d THEN d[key] ELSE default

\* the features loop of open_roadmap over feature_data records from the i-th on;
\* a missing 'id', 'title' or 'description' raises KeyError
RECURSIVE load_features(_, _, _, _)
load_features(s, data, i, list) ==
  IF i > Len(data) THEN [store |-> s, list |-> list]
  ELSE IF ~({"id", "title", "description"} \subseteq DOMAIN data[i])
  THEN [store |-> [s EXCEPT !.exc = TRUE], list |-> list]
  ELSE LET f == NewOid(DOMAIN s.feat)
           feature == Feature(data[i]["id"], data[i]["title"], data[i]["description"],
                              Get(data[i], "completed", FALSE),
                              Get(data[i], "color", DefaultColor))
       IN load_features([s EXCEPT !.feat = (f :> feature) @@ s.feat],
                        data, i + 1, Append(list, f))

\* the quarters loop of open_roadmap over quarter_data records from the k-th on;
\* a missing 'year' or 'quarter' raises KeyError
RECURSIVE load_quarters(_, _, _)
load_quarters(s, data, k) ==
  IF k > Len(data) \/ s.exc THEN s
  ELSE IF ~({"year", "quarter"} \subseteq DOMAIN data[k])
  THEN [s EXCEPT !.exc = TRUE]
  ELSE LET made == load_features(s, Get(data[k], "features", <<>>), 1, <<>>)
       IN IF made.store.exc THEN Collect(made.store)
          ELSE load_quarters(
                 add_quarter_to_ui(made.store, data[k]["year"], data[k]["quarter"],
                                   made.list),
                 data, k + 1)

\* the try block of open_roadmap once json.load has returned data; yes answers
\* the askyesno of the clear_all it calls
open_roadmap(s, data, yes) ==
  LET cleared == Collect([clear_all(s, yes) EXCEPT !.quarters = <<>>])
  IN load_quarters(cleared, Get(data, "quarters", <<>>), 1)

\* read-only files the user can pick in the open dialog besides the one the
\* program wrote
FileNames == {"garbage.json", "partial.json", "plain.json"}

\* json.load of such a file; <<>> when it raises (not JSON)
FileData(name) ==
  CASE name = "garbage.json" -> <<>>
    [] name = "partial.json" ->
         << [quarters |->
               << [year |-> 2030, quarter |-> 1],
                  [year |-> 2030, quarter |-> 2,
                   features |-> << [id |-> <<"x">>, title |-> <<"t">>,
                                    description |-> <<>>, completed |-> TRUE,
                                    color |-> "#FF0000"],
                                   [id |-> <<"y">>, description |-> <<>>] >>],
                  [quarter |-> 3, features |-> <<>>] >>] >>
    [] name = "plain.json" ->
         << [version |-> "1.0",
             quarters |->
               << [year |-> 2031, quarter |-> 3,
                   features |-> << [id |-> <<"x">>, title |-> <<"t">>,
                                    description |-> <<"d">>] >>],
                  [year |-> 2030, quarter |-> 1,
                   features |-> << [id |-> <<"x">>, title |-> <<"t">>,
                                    description |-> <<"d">>, completed |-> TRUE,
                                    color |-> "#FF0000"] >>] >>] >>

\* the name save_as_roadmap gets from the save dialog
OutFile == "roadmap.json"

\* what json.load reads from a file: the program's own file holds what
\* save_to_file wrote last
ReadFile(name) == IF name = OutFile THEN disk ELSE FileData(name)

(* ----------------------------- actions --------------------------------- *)

\* the handler's effect on the objects; an exception that leaves a Tk callback
\* is reported and the event loop goes on
Commit(s) ==
  LET after == Collect(s)
  IN /\ quarters' = after.quarters
     /\ qobj' = after.qobj
     /\ feat' = after.feat
     /\ frames' = after.frames
     /\ quarter_frames' = after.quarter_frames

Outcome(s) == IF s.exc THEN "exception" ELSE "none"

\* RoadmapApp.__init__: setup_ui, then initialize_quarters
Init ==
  LET s == initialize_quarters(
             [quarters |-> <<>>, qobj |-> << >>, feat |-> << >>, frames |-> << >>,
              quarter_frames |-> << >>, exc |-> FALSE])
  IN /\ quarters = s.quarters
     /\ qobj = s.qobj
     /\ feat = s.feat
     /\ frames = s.frames
     /\ quarter_frames = s.quarter_frames
     /\ current_file = ""
     /\ disk = <<>>
     /\ saved_view = <<>>
     /\ last_error = "none"
     /\ declines = 0

\* the "Add Quarter" button
AddQuarter ==
  LET after == add_quarter(Store)
  IN /\ Len(quarters) < MaxQuarters
     /\ Commit(after)
     /\ last_error' = Outcome(after)
     /\ UNCHANGED <<current_file, disk, saved_view, declines>>

\* the "Remove Quarter" button
RemoveQuarter ==
  /\ Commit(remove_quarter(Store))
  /\ last_error' = "none"
  /\ UNCHANGED <<current_file, disk, saved_view, declines>>

\* the "Clear All" button
ClearAll ==
  \E yes \in BOOLEAN :
    /\ Commit(clear_all(Store, yes))
    /\ last_error' = "none"
    /\ UNCHANGED <<current_file, disk, saved_view, declines>>

\* the entries of the feature lists of all quarter objects, counted
FeatureCount ==
  Cardinality(UNION {{<<q, i>> : i \in 1..Len(qobj[q].features)} : q \in DOMAIN qobj})

\* the "+ Add Feature" button of a frame, and the dialog session it opens
AddFeature ==
  \E g \in DOMAIN frames, o \in AddOutcomes :
    /\ FeatureCount < MaxFeatures
    /\ Commit(add_feature(Store, g, o.result))
    /\ last_error' = "none"
    /\ UNCHANGED <<current_file, disk, saved_view, declines>>

\* the checkbutton of a feature widget
ToggleFeature ==
  \E g \in DOMAIN frames :
    \E i \in 1..Len(frames[g]) :
      /\ FeatureCount <= MaxEdited
      /\ Commit(toggle_feature(Store, g, frames[g][i].feature, ~frames[g][i].var))
      /\ last_error' = "none"
      /\ UNCHANGED <<current_file, disk, saved_view, declines>>

\* the "Edit" button of a feature widget, and the dialog session it opens
EditFeature ==
  \E g \in DOMAIN frames :
    \E i \in 1..Len(frames[g]) :
      \E o \in EditOutcomes(feat[frames[g][i].feature]) :
        /\ FeatureCount <= MaxEdited
        /\ Commit(edit_feature(Store, g, frames[g][i].feature, o.result))
        /\ last_error' = "none"
        /\ UNCHANGED <<current_file, disk, saved_view, declines>>

\* the "Delete" button of a feature widget
DeleteFeature ==
  \E g \in DOMAIN frames, yes \in BOOLEAN :
    \E i \in 1..Len(frames[g]) :
      /\ FeatureCount <= MaxFeatures
      /\ Commit(delete_feature(Store, g, frames[g][i].feature, yes))
      /\ last_error' = "none"
      /\ UNCHANGED <<current_file, disk, saved_view, declines>>

\* the up-arrow button of a feature widget
MoveFeatureUp ==
  \E g \in DOMAIN frames :
    \E i \in 1..Len(frames[g]) :
      LET after == move_feature_up(Store, g, frames[g][i].feature)
      IN /\ FeatureCount <= MaxFeatures
         /\ Commit(after)
         /\ last_error' = Outcome(after)
         /\ UNCHANGED <<current_file, disk, saved_view, declines>>

\* the down-arrow button of a feature widget
MoveFeatureDown ==
  \E g \in DOMAIN frames :
    \E i \in 1..Len(frames[g]) :
      LET after == move_feature_down(Store, g, frames[g][i].feature)
      IN /\ FeatureCount <= MaxFeatures
         /\ Commit(after)
         /\ last_error' = Outcome(after)
         /\ UNCHANGED <<current_file, disk, saved_view, declines>>

\* the count of the declined confirmations of a called clear_all; asked tells
\* whether the handler gets to its clear_all, yes is the answer
Declined(asked, yes) ==
  /\ (asked /\ ~yes) => declines < MaxDeclines
  /\ declines' = IF asked /\ ~yes THEN declines + 1 ELSE declines

\* File > New
NewRoadmap ==
  \E yes1 \in BOOLEAN, yes2 \in BOOLEAN :
    LET after == new_roadmap(Store, yes1, yes2)
    IN /\ Declined(quarters # <<>> /\ yes1, yes2)
       /\ Commit(after)
       /\ current_file' = IF quarters # <<>> /\ ~yes1 THEN current_file ELSE ""
       /\ last_error' = Outcome(after)
       /\ UNCHANGED <<disk, saved_view>>

\* a Templates menu entry
LoadTemplate ==
  \E template_type \in DOMAIN Templates, yes1 \in BOOLEAN, yes2 \in BOOLEAN :
    LET after == load_template(Store, template_type, yes1, yes2)
    IN /\ Declined(quarters = <<>> \/ yes1, yes2)
       /\ Commit(after)
       /\ last_error' = Outcome(after)
       /\ UNCHANGED <<current_file, disk, saved_view>>

\* RoadmapApp.open_roadmap of the file the user picked; a failure inside the
\* try block ends in the except clause's error dialog
OpenFile(name, yes) ==
  /\ Declined(ReadFile(name) # <<>>, yes)
  /\ IF ReadFile(name) = <<>>
     THEN /\ last_error' = "errordialog"
          /\ UNCHANGED <<quarters, qobj, feat, frames, quarter_frames, current_file>>
     ELSE LET after == open_roadmap(Store, ReadFile(name)[1], yes)
          IN /\ Commit(after)
             /\ current_file' = IF after.exc THEN current_file ELSE name
             /\ last_error' = IF after.exc THEN "errordialog" ELSE "none"
  /\ UNCHANGED <<disk, saved_view>>

\* File > Open; cancelling the open dialog changes nothing
OpenRoadmap ==
  \E name \in FileNames \cup {OutFile}, yes \in BOOLEAN :
    /\ name = OutFile => disk # <<>>
    /\ OpenFile(name, yes)

\* RoadmapApp.save_to_file; written is FALSE when open() or json.dump raises,
\* as open() does for the files of FileNames, which are read-only
save_to_file(filename, written) ==
  IF written /\ filename \notin FileNames
  THEN /\ disk' = <<SaveData(Store)>>
       /\ saved_view' = View(Store)
       /\ current_file' = filename
       /\ last_error' = "none"
  ELSE /\ last_error' = "errordialog"
       /\ UNCHANGED <<disk, saved_view, current_file>>

\* File > Save: RoadmapApp.save_roadmap, asking for a name when there is none
SaveRoadmap ==
  \E written \in BOOLEAN :
    /\ save_to_file(IF current_file # "" THEN current_file ELSE OutFile, written)
    /\ UNCHANGED <<quarters, qobj, feat, frames, quarter_frames, declines>>

\* File > Save As: RoadmapApp.save_as_roadmap
SaveAsRoadmap ==
  \E written \in BOOLEAN :
    /\ save_to_file(OutFile, written)
    /\ UNCHANGED <<quarters, qobj, feat, frames, quarter_frames, declines>>

Next ==
  \/ AddQuarter
  \/ RemoveQuarter
  \/ ClearAll
  \/ AddFeature
  \/ ToggleFeature
  \/ EditFeature
  \/ DeleteFeature
  \/ MoveFeatureUp
  \/ MoveFeatureDown
  \/ NewRoadmap
  \/ LoadTemplate
  \/ OpenRoadmap
  \/ SaveRoadmap
  \/ SaveAsRoadmap

Spec == Init /\ [][Next]_vars

\* the handlers of the toolbar and of the File and Templates menus, without saving
NextRoadmap ==
  \/ AddQuarter
  \/ RemoveQuarter
  \/ ClearAll
  \/ NewRoadmap
  \/ LoadTemplate
  \/ OpenRoadmap

SpecRoadmap == Init /\ [][NextRoadmap]_vars

\* the handlers that build the quarters list without reading a file
NextQuarters ==
  \/ AddQuarter
  \/ RemoveQuarter
  \/ ClearAll
  \/ NewRoadmap
  \/ LoadTemplate

SpecQuarters == Init /\ [][NextQuarters]_vars

\* adding, deleting and moving features
NextFeatures ==
  \/ AddFeature
  \/ DeleteFeature
  \/ MoveFeatureUp
  \/ MoveFeatureDown

SpecFeatures == Init /\ [][NextFeatures]_vars

\* the feature editor dialog and the checkbutton
NextEditor ==
  \/ AddFeature
  \/ EditFeature
  \/ ToggleFeature
  \/ DeleteFeature

SpecEditor == Init /\ [][NextEditor]_vars

\* saving and opening files
NextFile ==
  \/ RemoveQuarter
  \/ ClearAll
  \/ ToggleFeature
  \/ DeleteFeature
  \/ OpenRoadmap
  \/ SaveRoadmap
  \/ SaveAsRoadmap

SpecFile == Init /\ [][NextFile]_vars

(* ------------------------------ claims --------------------------------- *)

Front(list) == SubSeq(list, 1, Len(list) - 1)

\* the quarters of the roadmap whose frame is on screen, as positions in the list
Framed == {k \in 1..Len(quarters) : quarters[k] \in DOMAIN frames}

\* how often feature object f occurs in the feature list of quarter object q
Occurrences(q, f) == Cardinality({i \in 1..Len(qobj[q].features) : qobj[q].features[i] = f})

\* C1: every feature stored in a quarter has a title that is non-empty after
\* stripping whitespace, whatever was done in the feature editor dialog
C1_StoredTitlesNonEmpty ==
  \A q \in DOMAIN qobj :
    \A i \in 1..Len(qobj[q].features) :
      Strip(feat[qobj[q].features[i]].title) # <<>>

\* C2: move_feature_up of the first feature of a quarter that is not the first
\* makes it the last feature of the quarter before, move_feature_down of the
\* last feature of a quarter that is not the last makes it the first feature of
\* the quarter after; the feature keeps its fields, the other features their order
C2_MoveAcrossQuarters ==
  \A k \in Framed :
    LET g == quarters[k]
        features == qobj[g].features
    IN features # <<>> =>
         /\ k > 1 =>
              LET f == features[1]
                  previous_quarter == quarters[k - 1]
                  after == Collect(move_feature_up(Store, g, f))
              IN /\ after.qobj[g].features = Tail(features)
                 /\ after.qobj[previous_quarter].features =
                      Append(qobj[previous_quarter].features, f)
                 /\ after.feat[f] = feat[f]
         /\ k < Len(quarters) =>
              LET f == features[Len(features)]
                  next_quarter == quarters[k + 1]
                  after == Collect(move_feature_down(Store, g, f))
              IN /\ after.qobj[g].features = Front(features)
                 /\ after.qobj[next_quarter].features =
                      <<f>> \o qobj[next_quarter].features
                 /\ after.feat[f] = feat[f]

\* the roadmap a load_template of this template must leave, by the claim: the
\* quarters 1..4 of the current year with the titles two by two
ExpectedTemplate(template_type) ==
  [k \in 1..4 |->
     [year |-> CurrentYear, quarter |-> k,
      features |->
        [j \in 1..(IF k = 4 THEN 1 ELSE 2) |->
           [title |-> Templates[template_type][2 * (k - 1) + j],
            description |->
              <<"Implementation of ">> \o Templates[template_type][2 * (k - 1) + j],
            color |-> Palette[((k - 1) % 4) + 1]]]]]

\* the titles, descriptions and colours of a roadmap
Shown(view) ==
  [k \in 1..Len(view) |->
     [year |-> view[k].year, quarter |-> view[k].quarter,
      features |->
        [j \in 1..Len(view[k].features) |->
           [title |-> view[k].features[j].title,
            description |-> view[k].features[j].description,
            color |-> view[k].features[j].color]]]]

\* C3: an open_roadmap that fails on a record with a missing field leaves the
\* quarters list as it was before the open
C3_FailedOpenChangesNothing ==
  \A name \in FileNames, yes \in BOOLEAN :
    FileData(name) # <<>> =>
      LET after == Collect(open_roadmap(Store, FileData(name)[1], yes))
      IN after.exc => /\ after.quarters = quarters
                      /\ View(after) = View(Store)

\* C4: a load_template that goes ahead (empty roadmap, or yes to "replace current
\* roadmap") leaves exactly the template's four quarters and nothing else
C4_TemplateReplacesRoadmap ==
  \A template_type \in DOMAIN Templates, yes1 \in BOOLEAN, yes2 \in BOOLEAN :
    (quarters = <<>> \/ yes1) =>
      Shown(View(Collect(load_template(Store, template_type, yes1, yes2))))
        = ExpectedTemplate(template_type)

C6_UpThenDownIsIdentity ==
  \A k \in Framed :
    LET g == quarters[k]
    IN \A p \in 2..(Len(qobj[g].features) - 1) :
         LET f == qobj[g].features[p]
             moved_up == Collect(move_feature_up(Store, g, f))
             moved_back == Collect(move_feature_down(moved_up, g, f))
         IN Occurrences(g, f) = 1 =>
              \A q \in DOMAIN qobj :
                /\ q \in DOMAIN moved_back.qobj
                /\ moved_back.qobj[q].features = qobj[q].features

\* C7: add_feature appends the new feature and a confirmed delete_feature(f)
\* removes f itself and no other entry, the rest keeping their order
C7_DeleteRemovesThatFeature ==
  \A k \in Framed :
    LET g == quarters[k]
    IN /\ \A o \in AddOutcomes :
            o.result # <<>> =>
              Front(Collect(add_feature(Store, g, o.result)).qobj[g].features)
                = qobj[g].features
       /\ \A p \in 1..Len(qobj[g].features) :
            Occurrences(g, qobj[g].features[p]) = 1 =>
              Collect(delete_feature(Store, g, qobj[g].features[p], TRUE)).qobj[g].features
                = RemoveAt(qobj[g].features, p)

\* C8: a feature object occurs in the feature list of one quarter only, and once
C8_OneQuarterPerFeature ==
  \A f \in DOMAIN feat :
    Cardinality({p \in UNION {{<<k, i>> : i \in 1..Len(qobj[quarters[k]].features)} :
                                k \in 1..Len(quarters)} :
                   qobj[quarters[p[1]]].features[p[2]] = f}) <= 1

\* C9: within a quarter no two features have the same id
C9_IdsUniqueInQuarter ==
  \A q \in DOMAIN qobj :
    \A i, j \in 1..Len(qobj[q].features) :
      i # j => feat[qobj[q].features[i]].id # feat[qobj[q].features[j]].id

\* C10: add_quarter appends one quarter with no features, (CurrentYear, 1) to an
\* empty list and else the quarter after the last one, with the year carried
\* after quarter 4, and changes no quarter that was there
C10_AddQuarterAppendsSuccessor ==
  LET after == Collect(add_quarter(Store))
      n == Len(quarters)
      added == after.qobj[after.quarters[n + 1]]
  IN /\ Len(after.quarters) = n + 1
     /\ SubSeq(after.quarters, 1, n) = quarters
     /\ after.quarters[n + 1] \notin DOMAIN qobj
     /\ \A q \in DOMAIN qobj : after.qobj[q] = qobj[q]
     /\ \A f \in DOMAIN feat : after.feat[f] = feat[f]
     /\ added.features = <<>>
     /\ n = 0 => /\ added.year = CurrentYear
                 /\ added.quarter = 1
     /\ n > 0 =>
          LET y == qobj[quarters[n]].year
              q == qobj[quarters[n]].quarter
          IN /\ q \in {1, 2, 3} => /\ added.year = y
                                   /\ added.quarter = q + 1
             /\ q = 4 => /\ added.year = y + 1
                         /\ added.quarter = 1

\* C10 happens: add_quarter has taken an emptied roadmap from (CurrentYear, 1)
\* past quarter 4 into the next year
C10_Witness ==
  /\ Len(quarters) = 5
  /\ \A k \in 1..4 : /\ qobj[quarters[k]].year = CurrentYear
                     /\ qobj[quarters[k]].quarter = k
                     /\ qobj[quarters[k]].features = <<>>
  /\ qobj[quarters[5]].year = CurrentYear + 1
  /\ qobj[quarters[5]].quarter = 1
  /\ qobj[quarters[5]].features = <<>>

\* C11: remove_quarter takes the last quarter off a non-empty list and leaves
\* every other quarter, its position and its features as they were; on an empty
\* list it changes nothing; it raises no error
C11_RemoveQuarterDropsLast ==
  LET after == Collect(remove_quarter(Store))
      n == Len(quarters)
  IN /\ ~after.exc
     /\ n = 0 => /\ after.quarters = <<>>
                 /\ after.qobj = qobj
                 /\ after.feat = feat
                 /\ after.frames = frames
                 /\ after.quarter_frames = quarter_frames
     /\ n > 0 => /\ after.quarters = Front(quarters)
                 /\ \A k \in 1..(n - 1) :
                      /\ after.qobj[quarters[k]] = qobj[quarters[k]]
                      /\ FeatureValues(after, quarters[k]) = FeatureValues(Store, quarters[k])

\* C11 happens: remove_quarter has taken the fourth quarter off a roadmap that
\* load_template built, the three quarters before it keeping their two features
C11_Witness ==
  /\ Len(quarters) = 3
  /\ \A k \in 1..3 : /\ qobj[quarters[k]].year = CurrentYear
                     /\ qobj[quarters[k]].quarter = k
                     /\ Len(qobj[quarters[k]].features) = features_per_quarter
                     /\ \A i \in 1..features_per_quarter :
                          feat[qobj[quarters[k]].features[i]].title =
                            Templates.web[features_per_quarter * (k - 1) + i]

\* C12: move_feature_up of the first feature of the first quarter and
\* move_feature_down of the last feature of the last quarter leave the quarters
\* list and every quarter's features as they were and raise no error
C12_BoundaryMovesChangeNothing ==
  /\ 1 \in Framed /\ qobj[quarters[1]].features # <<>> =>
       LET g == quarters[1]
           after == Collect(move_feature_up(Store, g, qobj[g].features[1]))
       IN /\ ~after.exc
          /\ after.quarters = quarters
          /\ View(after) = View(Store)
  /\ Len(quarters) \in Framed /\ qobj[quarters[Len(quarters)]].features # <<>> =>
       LET g == quarters[Len(quarters)]
           after == Collect(move_feature_down(Store, g,
                                              qobj[g].features[Len(qobj[g].features)]))
       IN /\ ~after.exc
          /\ after.quarters = quarters
          /\ View(after) = View(Store)

\* C13: a feature editor dialog closed with Cancel changes nothing: add_feature
\* leaves the quarter's feature list, edit_feature leaves the feature's title,
\* description and color, whatever was done in the dialog before
C13_CancelChangesNothing ==
  \A g \in DOMAIN frames :
    /\ \A o \in AddOutcomes :
         o.closed_by = "cancel" =>
           LET after == Collect(add_feature(Store, g, o.result))
           IN /\ after.qobj[g].features = qobj[g].features
              /\ FeatureValues(after, g) = FeatureValues(Store, g)
    /\ \A i \in 1..Len(frames[g]) :
         LET f == frames[g][i].feature
         IN \A o \in EditOutcomes(feat[f]) :
              o.closed_by = "cancel" =>
                Collect(edit_feature(Store, g, f, o.result)).feat[f] = feat[f]

\* C14: the live quarter frames and the quarters list correspond one to one:
\* every quarter of the list has its frame on screen, registered in
\* quarter_frames under the quarter's key, and every frame on screen shows a
\* quarter of the list
C14_FramesMatchQuarters ==
  /\ \A k \in 1..Len(quarters) :
       LET key == FrameKey(qobj[quarters[k]].year, qobj[quarters[k]].quarter)
       IN /\ quarters[k] \in DOMAIN frames
          /\ key \in DOMAIN quarter_frames
          /\ quarter_frames[key] = quarters[k]
  /\ \A g \in DOMAIN frames : g \in Range(quarters)

\* the chronological successor of quarter (year, quarter)
Successor(year, quarter) ==
  IF quarter = 4 THEN <<year + 1, 1>> ELSE <<year, quarter + 1>>

\* C15: the quarters list is in chronological order without gaps: each quarter
\* is the successor of the one before it
C15_QuartersChronological ==
  \A k \in 1..(Len(quarters) - 1) :
    <<qobj[quarters[k + 1]].year, qobj[quarters[k + 1]].quarter>> =
      Successor(qobj[quarters[k]].year, qobj[quarters[k]].quarter)

====
